---------------------------- MODULE Spec2Model ----------------------------
(***************************************************************************)
(* Model of src/main.py: the BLE control session (ControlRateLimiter and   *)
(* BleController: run, _enable_notifications, _disable_notifications, the  *)
(* notification handlers, _read_battery, send_control, request_battery,    *)
(* stop, _queue_ui), the physical link it drives, the application around   *)
(* it (PygameApp: run, mainloop and its keyboard and gamepad handlers,      *)
(* shutdown, ui_consumer) and the two pure functions                       *)
(* build_control_payload and decode_status_payload.                        *)
(*                                                                         *)
(* asyncio runs every coroutine on one thread, so a coroutine is atomic    *)
(* between two awaits that really suspend.  Every action below is one such *)
(* stretch of code: it starts where a coroutine is called or resumed and   *)
(* ends at the next suspending await (a link operation, a contended lock,  *)
(* the wait for the stop event) or at the coroutine's return.              *)
(* Time is in milliseconds (time.monotonic() is in seconds).               *)
(***************************************************************************)
EXTENDS Integers, Sequences, FiniteSets, TLC

VARIABLES
    now,                \* time.monotonic(), in ms
    link,               \* the physical link: "down" (never opened / closed), "up", "dropped"
    pc_run,             \* where BleController.run() is suspended
    client,             \* self._client: "None" or "client"
    status_notify,      \* self._status_notify
    battery_notify,     \* self._battery_notify
    stopped,            \* self._stopped
    stop_event,         \* self._stop_event.is_set()
    pc_stop,            \* where the one effective stop() call is suspended
    stop_calls,         \* number of stop() calls made so far
    write_lock,         \* self._write_lock: 0 when unlocked, else the holding send_control task
    waiters,            \* the lock's FIFO queue of waiting send_control tasks
    tasks,              \* the send_control calls, in call order
    breq,               \* the request_battery calls, in call order
    rl_last_payload,    \* ControlRateLimiter._last_payload
    rl_last_time,       \* ControlRateLimiter._last_time, in ms
    pending_payload,    \* self._pending_payload
    last_sent_payload,  \* self._last_sent_payload
    last_payload,       \* ControlState.last_payload
    battery_pct,        \* ControlState.battery_pct
    ui_log,             \* every item accepted by ui_queue.put_nowait, in order
    writes,             \* history: every write_gatt_char call started, <<payload, time>>
    ops,                \* history: outcome of link operations and paths taken
    last_battery,       \* self._last_battery
    ctl_last_status_hex,\* self._last_status_hex
    last_status,        \* ControlState.last_status
    last_status_hex,    \* ControlState.last_status_hex
    rx,                 \* history: the notifications delivered, <<characteristic, bytes>>
    state,              \* ControlState: mode, throttle, steering, lights, turbo, donut
    running,            \* PygameApp.running
    pc_app,             \* where PygameApp.run() is suspended
    pc_ui,              \* where ui_consumer() is: "get" or "done"
    consumed,           \* number of items ui_consumer has taken from ui_queue
    shut,               \* the shutdown() calls made as tasks, in call order
    ble_cancelled,      \* the task of BleController.run() has been cancelled
    call_arg,           \* a direct call of a pure function: its argument
    call_result,        \* ... and what it returned
    throttle_keys_down, \* PygameApp.throttle_keys_down
    steering_keys_down, \* PygameApp.steering_keys_down
    toggle_keys_down,   \* PygameApp.toggle_keys_down
    last_throttle_key,  \* PygameApp.last_throttle_key
    last_steering_key   \* PygameApp.last_steering_key

vars == <<now, link, pc_run, client, status_notify, battery_notify, stopped,
          stop_event, pc_stop, stop_calls, write_lock, waiters, tasks, breq,
          rl_last_payload, rl_last_time, pending_payload, last_sent_payload,
          last_payload, battery_pct, ui_log, writes, ops,
          last_battery, ctl_last_status_hex, last_status, last_status_hex, rx,
          state, running, pc_app, pc_ui, consumed, shut, ble_cancelled,
          call_arg, call_result,
          throttle_keys_down, steering_keys_down, toggle_keys_down,
          last_throttle_key, last_steering_key>>

\* The state of the notification handlers, of the application around the
\* session, and of direct calls of the pure functions.
notifvars == <<last_battery, ctl_last_status_hex, last_status, last_status_hex, rx>>
appvars == <<state, running, pc_app, pc_ui, consumed, shut, ble_cancelled>>
fnvars == <<call_arg, call_result>>
inputvars == <<throttle_keys_down, steering_keys_down, toggle_keys_down,
               last_throttle_key, last_steering_key>>

----------------------------------------------------------------------------
(* Bounds of the model *)

\* number of send_control calls on the connected session (SendSpec) and of
\* should_send calls (LimiterSpec)
NTasks == 3
\* number of send_control calls during the session's life (Spec, FairSpec)
NSessionSends == 2
\* number of request_battery calls
NBat == 1
\* number of stop() calls
MaxStopCalls == 2
\* the clock stops advancing here
MaxTime == 200
\* number of tasks the application creates (send_control, shutdown)
NAppTasks == 2
\* tasks created by the keyboard and gamepad handlers
NInputTasks == 3

(* Program constants *)

\* ControlRateLimiter(0.1): min_interval in ms
MinInterval == 100
\* ControlState.mode default
DefaultMode == 1

\* The clock advances by one of these steps (ms) between two actions.
Deltas == {40, 100}
\* The finer steps between two calls of should_send taken alone.
LimiterDeltas == {10, 50, 100}

\* An Optional value: None, or Some(v).  None is no byte string and no Some(v)
\* of a byte v.
None == <<-1>>
Some(v) == <<v>>
\* b""
EmptyBytes == <<>>

\* build_control_payload(state): [mode, fwd, rev, left, right, lights, turbo, donut]
\* Mutant: the throttle and steering flags from ">= 0" and "<= 0".
BuildPayloadNonStrict(mode, throttle, steering, lights, turbo, donut) ==
    << mode % 256,
       IF throttle >= 0 THEN 1 ELSE 0,
       IF throttle <= 0 THEN 1 ELSE 0,
       IF steering <= 0 THEN 1 ELSE 0,
       IF steering >= 0 THEN 1 ELSE 0,
       IF lights THEN 1 ELSE 0,
       IF turbo THEN 1 ELSE 0,
       IF donut THEN 1 ELSE 0 >>

build_control_payload(mode, throttle, steering, lights, turbo, donut) ==
    << mode % 256,
       IF throttle > 0 THEN 1 ELSE 0,
       IF throttle < 0 THEN 1 ELSE 0,
       IF steering < 0 THEN 1 ELSE 0,
       IF steering > 0 THEN 1 ELSE 0,
       IF lights THEN 1 ELSE 0,
       IF turbo THEN 1 ELSE 0,
       IF donut THEN 1 ELSE 0 >>

\* The payloads the callers of send_control offer: neutral and forward.
Payloads == { build_control_payload(DefaultMode, th, 0, FALSE, FALSE, FALSE) : th \in {0, 1} }

\* What read_gatt_char(BATTERY_CHARACTERISTIC_UUID) may return.
ReadData == { <<>>, <<80>> }

----------------------------------------------------------------------------
(* ControlRateLimiter *)

\* Mutants of should_send's condition: the interval compared with > instead
\* of >=, and the unchanged payload let through whatever the time.
ShouldSendStrict(p, t, lp, lt) == p # lp \/ (t - lt) > MinInterval

ShouldSendAlways(p, t, lp, lt) == p # lp \/ (t - lt) >= 0

\* should_send's condition: payload, time.monotonic(), _last_payload, _last_time
ShouldSend(p, t, lp, lt) == p # lp \/ (t - lt) >= MinInterval

\* should_send(payload) returning res: an admission records the payload and
\* the time, a rejection records nothing.
should_send(p, res) ==
    /\ res = ShouldSend(p, now, rl_last_payload, rl_last_time)
    /\ IF res
       THEN rl_last_payload' = p /\ rl_last_time' = now
       ELSE UNCHANGED <<rl_last_payload, rl_last_time>>

----------------------------------------------------------------------------
(* _queue_ui and ui_queue.  ui_log has every item the queue accepted, in
   order; ui_consumer has taken the first `consumed` of them, so the queue
   holds the rest. *)
Event(kind, data) == [kind |-> kind, data |-> data]

\* asyncio.Queue(): the default maxsize, for which the queue is never full.
QueueMaxSize == 0

ui_queue == SubSeq(ui_log, consumed + 1, Len(ui_log))

\* Queue.put_nowait on the queue whose accepted items are log: QueueFull is
\* raised when maxsize > 0 and qsize() >= maxsize, else the item is appended.
QueueFull(log) == QueueMaxSize > 0 /\ Len(log) - consumed >= QueueMaxSize

\* _queue_ui swallows QueueFull: the item is dropped.
queue_ui(log, kind, data) == IF QueueFull(log) THEN log ELSE Append(log, Event(kind, data))

Count(log, kind) == Cardinality({ i \in 1..Len(log) : log[i].kind = kind })


----------------------------------------------------------------------------
(* Initial state: BleController.__init__ and ControlState(), run() created
   but not yet started. *)

\* The calls made in a run are numbered in call order.
Slots ==
    LET bounds == {NTasks, NSessionSends, NAppTasks, NInputTasks}
    IN  1..(CHOOSE n \in bounds : \A m \in bounds : m <= n)

\* A send_control call: where it is, its payload, the time of the call, and
\* (history) whether it has called write_gatt_char.
TaskNew == [pc |-> "new", p |-> EmptyBytes, t |-> 0, w |-> FALSE]

OpsInit == [connect |-> "none", disconnect |-> "none",
            sub_status |-> "none", sub_battery |-> "none",
            unsub_status |-> 0, unsub_battery |-> 0,
            read_fail |-> 0, write_fail |-> 0,
            stop_again |-> FALSE, stop_write |-> FALSE, late_send |-> FALSE]

\* ControlState() as constructed: the fields the inputs drive.
StateNew == [mode |-> 1, throttle |-> 0, steering |-> 0,
             lights |-> FALSE, turbo |-> FALSE, donut |-> FALSE]

\* The handlers' memory and the telemetry fields, as constructed.
InitNotif ==
    /\ last_battery = None
    /\ ctl_last_status_hex = <<>>
    /\ last_status = <<>>
    /\ last_status_hex = <<>>
    /\ rx = <<>>

\* PygameApp(): not running, run() not yet called, no task created.
InitApp ==
    /\ state = StateNew
    /\ running = FALSE
    /\ pc_app = "init"
    /\ pc_ui = "new"
    /\ consumed = 0
    /\ shut = [k \in Slots |-> "none"]
    /\ ble_cancelled = FALSE

\* PygameApp(): no key is down.  The Optional key names are "None" or a name.
InitInput ==
    /\ throttle_keys_down = {}
    /\ steering_keys_down = {}
    /\ toggle_keys_down = {}
    /\ last_throttle_key = "None"
    /\ last_steering_key = "None"

\* No direct call of a pure function.
InitCalls ==
    /\ call_arg = <<>>
    /\ call_result = <<>>

\* BleController() and its ControlRateLimiter, run() created but not started.
InitSession ==
    /\ now = 0
    /\ link = "down"
    /\ pc_run = "start"
    /\ client = "None"
    /\ status_notify = FALSE
    /\ battery_notify = FALSE
    /\ stopped = FALSE
    /\ stop_event = FALSE
    /\ pc_stop = "idle"
    /\ stop_calls = 0
    /\ write_lock = 0
    /\ waiters = <<>>
    /\ tasks = [k \in Slots |-> TaskNew]
    /\ breq = [k \in 1..NBat |-> "new"]
    /\ rl_last_payload = None
    /\ rl_last_time = 0
    /\ pending_payload = None
    /\ last_sent_payload = None
    /\ last_payload = EmptyBytes
    /\ battery_pct = None
    /\ ui_log = <<>>
    /\ writes = <<>>
    /\ ops = OpsInit

Init ==
    /\ InitSession
    /\ InitNotif
    /\ InitInput
    /\ InitApp
    /\ InitCalls

----------------------------------------------------------------------------
(* The environment: the clock and the radio link *)

Tick(d) ==
    /\ now + d <= MaxTime
    /\ now' = now + d
    /\ UNCHANGED <<inputvars, notifvars, appvars, fnvars, link, pc_run, client, status_notify, battery_notify, stopped,
                   stop_event, pc_stop, stop_calls, write_lock, waiters, tasks, breq,
                   rl_last_payload, rl_last_time, pending_payload, last_sent_payload,
                   last_payload, battery_pct, ui_log, writes, ops>>

\* The peripheral goes out of range or powers off.  The code registers no
\* disconnected_callback with BleakClient, so nothing of the session changes.
LinkDrop ==
    /\ link = "up"
    /\ link' = "dropped"
    /\ UNCHANGED <<inputvars, notifvars, appvars, fnvars, ops, now, pc_run, client, status_notify, battery_notify, stopped,
                   stop_event, pc_stop, stop_calls, write_lock, waiters, tasks, breq,
                   rl_last_payload, rl_last_time, pending_payload, last_sent_payload,
                   last_payload, battery_pct, ui_log, writes>>

----------------------------------------------------------------------------
(* BleController.run *)

\* run(), first stretch: the "Connecting" message, then BleakClient.__aenter__
\* awaits the connect.
RunStart ==
    /\ pc_run = "start"
    /\ ui_log' = queue_ui(ui_log, "message", <<>>)
    /\ pc_run' = "connecting"
    /\ UNCHANGED <<inputvars, notifvars, appvars, fnvars, now, link, client, status_notify, battery_notify, stopped,
                   stop_event, pc_stop, stop_calls, write_lock, waiters, tasks, breq,
                   rl_last_payload, rl_last_time, pending_payload, last_sent_payload,
                   last_payload, battery_pct, writes, ops>>

\* Mutant: the finally clause without its disconnected event.
RunFinishSilent(log, o) ==
    /\ client' = "None"
    /\ ui_log' = log
    /\ pc_run' = "done"
    /\ ops' = o

\* The end of run()'s finally clause: self._client = None, then the
\* disconnected event.
RunFinish(log, o) ==
    /\ client' = "None"
    /\ ui_log' = queue_ui(log, "disconnected", <<>>)
    /\ pc_run' = "done"
    /\ ops' = o

\* run()'s finally clause from its start: _disable_notifications() up to its
\* first stop_notify, or, with nothing to unsubscribe, through to the end.
RunFinally(log, o) ==
    IF client = "None"
    THEN RunFinish(log, o)
    ELSE IF status_notify
    THEN /\ pc_run' = "fin_status"
         /\ ops' = [o EXCEPT !.unsub_status = @ + 1]
         /\ ui_log' = log
         /\ client' = client
    ELSE IF battery_notify
    THEN /\ pc_run' = "fin_battery"
         /\ ops' = [o EXCEPT !.unsub_battery = @ + 1]
         /\ ui_log' = log
         /\ client' = client
    ELSE RunFinish(log, o)

\* The connect returns: self._client is set, "connected" is posted and
\* _enable_notifications awaits start_notify(STATUS).  Or it raises: the
\* except clause posts the error and the finally clause runs with
\* self._client still None.
RunConnect(ok) ==
    /\ pc_run = "connecting"
    /\ IF ok
       THEN /\ link' = "up"
            /\ client' = "client"
            /\ ui_log' = queue_ui(ui_log, "connected", <<>>)
            /\ pc_run' = "enable_status"
            /\ ops' = [ops EXCEPT !.connect = "ok"]
       ELSE /\ link' = link
            /\ RunFinally(queue_ui(ui_log, "error", <<>>),
                          [ops EXCEPT !.connect = "fail"])
    /\ UNCHANGED <<inputvars, notifvars, appvars, fnvars, now, status_notify, battery_notify, stopped,
                   stop_event, pc_stop, stop_calls, write_lock, waiters, tasks, breq,
                   rl_last_payload, rl_last_time, pending_payload, last_sent_payload,
                   last_payload, battery_pct, writes>>

\* Mutant: both start_notify calls in one try block, so that a failure of
\* the first skips the second.
RunStatusNotifyOneTry(ok) ==
    /\ pc_run = "enable_status"
    /\ ok => link = "up"
    /\ IF ok
       THEN /\ status_notify' = TRUE
            /\ ui_log' = ui_log
            /\ ops' = [ops EXCEPT !.sub_status = "ok"]
            /\ pc_run' = "enable_battery"
       ELSE /\ status_notify' = status_notify
            /\ ui_log' = queue_ui(ui_log, "warn", <<>>)
            /\ ops' = [ops EXCEPT !.sub_status = "fail"]
            /\ pc_run' = "read_battery"
    /\ UNCHANGED <<inputvars, notifvars, appvars, fnvars, now, link, client, battery_notify, stopped,
                   stop_event, pc_stop, stop_calls, write_lock, waiters, tasks, breq,
                   rl_last_payload, rl_last_time, pending_payload, last_sent_payload,
                   last_payload, battery_pct, writes>>

\* start_notify(STATUS) returns or raises; then start_notify(BATTERY) is awaited.
RunStatusNotify(ok) ==
    /\ pc_run = "enable_status"
    /\ ok => link = "up"
    /\ IF ok
       THEN /\ status_notify' = TRUE
            /\ ui_log' = ui_log
            /\ ops' = [ops EXCEPT !.sub_status = "ok"]
       ELSE /\ status_notify' = status_notify
            /\ ui_log' = queue_ui(ui_log, "warn", <<>>)
            /\ ops' = [ops EXCEPT !.sub_status = "fail"]
    /\ pc_run' = "enable_battery"
    /\ UNCHANGED <<inputvars, notifvars, appvars, fnvars, now, link, client, battery_notify, stopped,
                   stop_event, pc_stop, stop_calls, write_lock, waiters, tasks, breq,
                   rl_last_payload, rl_last_time, pending_payload, last_sent_payload,
                   last_payload, battery_pct, writes>>

\* start_notify(BATTERY) returns or raises; _send_pending() finds
\* _pending_payload None (it is assigned nothing else anywhere in the program)
\* and returns; _read_battery awaits read_gatt_char.
RunBatteryNotify(ok) ==
    /\ pc_run = "enable_battery"
    /\ ok => link = "up"
    /\ IF ok
       THEN /\ battery_notify' = TRUE
            /\ ui_log' = ui_log
            /\ ops' = [ops EXCEPT !.sub_battery = "ok"]
       ELSE /\ battery_notify' = battery_notify
            /\ ui_log' = queue_ui(ui_log, "warn", <<>>)
            /\ ops' = [ops EXCEPT !.sub_battery = "fail"]
    /\ ~(pending_payload # None /\ client # "None")
    /\ pc_run' = "read_battery"
    /\ UNCHANGED <<inputvars, notifvars, appvars, fnvars, now, link, client, status_notify, stopped,
                   stop_event, pc_stop, stop_calls, write_lock, waiters, tasks, breq,
                   rl_last_payload, rl_last_time, pending_payload, last_sent_payload,
                   last_payload, battery_pct, writes>>

\* _read_battery after its read: the battery event (data not empty), nothing
\* (empty data) or the warning (the read raised).
read_battery_pct(ok, data, old) == IF ok /\ data # <<>> THEN Some(data[1]) ELSE old

read_battery_log(ok, data, log) ==
    IF ~ok THEN queue_ui(log, "warn", <<>>)
    ELSE IF data # <<>> THEN queue_ui(log, "battery", <<data[1]>>)
    ELSE log

\* The initial battery read returns or raises; then run() waits for the stop
\* event, or, with the event already set, goes on into BleakClient.__aexit__,
\* which awaits the disconnect.
RunReadBattery(ok, data) ==
    /\ pc_run = "read_battery"
    /\ ok => link = "up"
    /\ battery_pct' = read_battery_pct(ok, data, battery_pct)
    /\ ui_log' = read_battery_log(ok, data, ui_log)
    /\ ops' = IF ok THEN ops ELSE [ops EXCEPT !.read_fail = @ + 1]
    /\ pc_run' = IF stop_event THEN "closing" ELSE "waiting"
    /\ UNCHANGED <<inputvars, notifvars, appvars, fnvars, now, link, client, status_notify, battery_notify, stopped,
                   stop_event, pc_stop, stop_calls, write_lock, waiters, tasks, breq,
                   rl_last_payload, rl_last_time, pending_payload, last_sent_payload,
                   last_payload, writes>>

\* Mutant: run() waits on an event that stop() does not set.
RunWakeNever ==
    /\ pc_run = "waiting"
    /\ FALSE
    /\ UNCHANGED vars

\* _stop_event.wait() returns once the event is set; __aexit__ awaits the
\* disconnect.
RunWake ==
    /\ pc_run = "waiting"
    /\ stop_event
    /\ pc_run' = "closing"
    /\ UNCHANGED <<inputvars, notifvars, appvars, fnvars, now, link, client, status_notify, battery_notify, stopped,
                   stop_event, pc_stop, stop_calls, write_lock, waiters, tasks, breq,
                   rl_last_payload, rl_last_time, pending_payload, last_sent_payload,
                   last_payload, battery_pct, ui_log, writes, ops>>

\* The disconnect returns, or raises into "except Exception"; then the
\* finally clause.
RunDisconnect(ok) ==
    /\ pc_run = "closing"
    /\ link' = IF ok THEN "down" ELSE link
    /\ IF ok
       THEN RunFinally(ui_log, [ops EXCEPT !.disconnect = "ok"])
       ELSE RunFinally(queue_ui(ui_log, "error", <<>>),
                       [ops EXCEPT !.disconnect = "fail"])
    /\ UNCHANGED <<inputvars, notifvars, appvars, fnvars, now, status_notify, battery_notify, stopped,
                   stop_event, pc_stop, stop_calls, write_lock, waiters, tasks, breq,
                   rl_last_payload, rl_last_time, pending_payload, last_sent_payload,
                   last_payload, battery_pct, writes>>

\* The finally clause's stop_notify(STATUS) returns or raises (both are
\* swallowed); the flag is cleared and the battery flag is looked at.
RunFinStatus ==
    /\ pc_run = "fin_status"
    /\ status_notify' = FALSE
    /\ IF battery_notify
       THEN /\ pc_run' = "fin_battery"
            /\ ops' = [ops EXCEPT !.unsub_battery = @ + 1]
            /\ UNCHANGED <<client, ui_log>>
       ELSE RunFinish(ui_log, ops)
    /\ UNCHANGED <<inputvars, notifvars, appvars, fnvars, now, link, battery_notify, stopped,
                   stop_event, pc_stop, stop_calls, write_lock, waiters, tasks, breq,
                   rl_last_payload, rl_last_time, pending_payload, last_sent_payload,
                   last_payload, battery_pct, writes>>

\* The finally clause's stop_notify(BATTERY) returns or raises.
RunFinBattery ==
    /\ pc_run = "fin_battery"
    /\ battery_notify' = FALSE
    /\ RunFinish(ui_log, ops)
    /\ UNCHANGED <<inputvars, notifvars, appvars, fnvars, now, link, status_notify, stopped,
                   stop_event, pc_stop, stop_calls, write_lock, waiters, tasks, breq,
                   rl_last_payload, rl_last_time, pending_payload, last_sent_payload,
                   last_payload, battery_pct, writes>>

----------------------------------------------------------------------------
(* BleController.stop *)

\* Mutant: stop() without its "if self._stopped: return".
StopCallUnguarded ==
    /\ stop_calls < MaxStopCalls
    /\ stop_calls' = stop_calls + 1
    /\ stopped' = TRUE
    /\ stop_event' = TRUE
    /\ IF client = "None"
       THEN pc_stop' = "done" /\ ops' = ops
       ELSE IF status_notify
       THEN pc_stop' = "status" /\ ops' = [ops EXCEPT !.unsub_status = @ + 1]
       ELSE IF battery_notify
       THEN pc_stop' = "battery" /\ ops' = [ops EXCEPT !.unsub_battery = @ + 1]
       ELSE pc_stop' = "done" /\ ops' = ops
    /\ UNCHANGED <<inputvars, notifvars, appvars, fnvars, now, link, pc_run, client, status_notify, battery_notify,
                   write_lock, waiters, tasks, breq,
                   rl_last_payload, rl_last_time, pending_payload, last_sent_payload,
                   last_payload, battery_pct, ui_log, writes>>

\* stop() is called.  A call that finds _stopped set returns at once.  The
\* first call sets the flag and the event and enters _disable_notifications,
\* up to its first stop_notify.
StopCall ==
    /\ stop_calls < MaxStopCalls
    /\ stop_calls' = stop_calls + 1
    /\ IF stopped
       THEN /\ ops' = [ops EXCEPT !.stop_again = @ \/ (pc_stop = "done")]
            /\ UNCHANGED <<stopped, stop_event, pc_stop>>
       ELSE /\ stopped' = TRUE
            /\ stop_event' = TRUE
            /\ LET o == [ops EXCEPT !.stop_write = (write_lock # 0)]
               IN  IF client = "None"
                   THEN pc_stop' = "done" /\ ops' = o
                   ELSE IF status_notify
                   THEN pc_stop' = "status" /\ ops' = [o EXCEPT !.unsub_status = @ + 1]
                   ELSE IF battery_notify
                   THEN pc_stop' = "battery" /\ ops' = [o EXCEPT !.unsub_battery = @ + 1]
                   ELSE pc_stop' = "done" /\ ops' = o
    /\ UNCHANGED <<inputvars, notifvars, appvars, fnvars, now, link, pc_run, client, status_notify, battery_notify,
                   write_lock, waiters, tasks, breq,
                   rl_last_payload, rl_last_time, pending_payload, last_sent_payload,
                   last_payload, battery_pct, ui_log, writes>>

\* stop()'s stop_notify(STATUS) returns or raises (swallowed).
StopStatus ==
    /\ pc_stop = "status"
    /\ status_notify' = FALSE
    /\ IF battery_notify
       THEN pc_stop' = "battery" /\ ops' = [ops EXCEPT !.unsub_battery = @ + 1]
       ELSE pc_stop' = "done" /\ ops' = ops
    /\ UNCHANGED <<inputvars, notifvars, appvars, fnvars, now, link, pc_run, client, battery_notify, stopped,
                   stop_event, stop_calls, write_lock, waiters, tasks, breq,
                   rl_last_payload, rl_last_time, pending_payload, last_sent_payload,
                   last_payload, battery_pct, ui_log, writes>>

\* stop()'s stop_notify(BATTERY) returns or raises (swallowed); stop() returns.
StopBattery ==
    /\ pc_stop = "battery"
    /\ battery_notify' = FALSE
    /\ pc_stop' = "done"
    /\ UNCHANGED <<inputvars, notifvars, appvars, fnvars, now, link, pc_run, client, status_notify, stopped,
                   stop_event, stop_calls, write_lock, waiters, tasks, breq,
                   rl_last_payload, rl_last_time, pending_payload, last_sent_payload,
                   last_payload, battery_pct, ui_log, writes, ops>>

----------------------------------------------------------------------------
(* BleController.send_control *)

\* Mutant: the write made without "async with self._write_lock".
LockNotHeld == TRUE

\* asyncio.Lock.acquire() takes the lock without suspending only when it is
\* unlocked and nobody is queued for it.
LockFree == write_lock = 0 /\ waiters = <<>>

\* Mutant: the guard without "or not self._client".
SendGuardStoppedOnly == stopped

\* The first guard of send_control.
SendGuard == stopped \/ client = "None"

\* send_control(p) running as call k (calls are numbered in call order), up
\* to its first suspension or its return: the two guards, the rate limiter
\* and the acquisition of the write lock.  With the lock free the write
\* starts in the same stretch.
send_control(k, p) ==
    IF SendGuard
    THEN /\ tasks' = [tasks EXCEPT ![k] = [pc |-> "noop", p |-> p, t |-> now, w |-> FALSE]]
         /\ UNCHANGED <<rl_last_payload, rl_last_time, write_lock, waiters, writes>>
    ELSE \E res \in BOOLEAN :
         /\ should_send(p, res)
         /\ IF ~res
            THEN /\ tasks' = [tasks EXCEPT ![k] = [pc |-> "rejected", p |-> p, t |-> now, w |-> FALSE]]
                 /\ UNCHANGED <<write_lock, waiters, writes>>
            ELSE IF LockFree
            THEN /\ write_lock' = k
                 /\ waiters' = waiters
                 /\ writes' = Append(writes, <<p, now>>)
                 /\ tasks' = [tasks EXCEPT ![k] = [pc |-> "writing", p |-> p, t |-> now, w |-> TRUE]]
            ELSE /\ waiters' = Append(waiters, k)
                 /\ tasks' = [tasks EXCEPT ![k] = [pc |-> "lockwait", p |-> p, t |-> now, w |-> FALSE]]
                 /\ UNCHANGED <<write_lock, writes>>

\* send_control(p) is called as call k by a caller that does not wait for it.
SendControl(k, p) ==
    /\ tasks[k].pc = "new"
    /\ \A j \in 1..(k - 1) : tasks[j].pc # "new"
    /\ send_control(k, p)
    /\ ops' = IF pc_run = "done" THEN [ops EXCEPT !.late_send = TRUE] ELSE ops
    /\ UNCHANGED <<inputvars, notifvars, appvars, fnvars, now, link, pc_run, client, status_notify, battery_notify, stopped,
                   stop_event, pc_stop, stop_calls, breq,
                   pending_payload, last_sent_payload,
                   last_payload, battery_pct, ui_log>>

\* Mutant: the released lock goes to the task that queued for it last.
LockGrantLast(k) ==
    /\ write_lock = 0
    /\ waiters # <<>>
    /\ k = waiters[Len(waiters)]
    /\ waiters' = SubSeq(waiters, 1, Len(waiters) - 1)
    /\ IF client = "None"
       THEN /\ tasks' = [tasks EXCEPT ![k].pc = "err"]
            /\ ui_log' = queue_ui(ui_log, "error", <<>>)
            /\ ops' = [ops EXCEPT !.write_fail = @ + 1]
            /\ UNCHANGED <<write_lock, writes>>
       ELSE /\ tasks' = [tasks EXCEPT ![k].pc = "writing", ![k].w = TRUE]
            /\ write_lock' = k
            /\ writes' = Append(writes, <<tasks[k].p, now>>)
            /\ UNCHANGED <<ui_log, ops>>
    /\ UNCHANGED <<inputvars, notifvars, appvars, fnvars, now, link, pc_run, client, status_notify, battery_notify, stopped,
                   stop_event, pc_stop, stop_calls, breq,
                   rl_last_payload, rl_last_time, pending_payload, last_sent_payload,
                   last_payload, battery_pct>>

\* The released lock goes to the task at the head of the queue.  Its write
\* starts, or self._client is None by now and the attribute access raises
\* into the except clause, which posts the error; the lock is released.
LockGrant(k) ==
    /\ write_lock = 0
    /\ waiters # <<>>
    /\ k = Head(waiters)
    /\ waiters' = Tail(waiters)
    /\ IF client = "None"
       THEN /\ tasks' = [tasks EXCEPT ![k].pc = "err"]
            /\ ui_log' = queue_ui(ui_log, "error", <<>>)
            /\ ops' = [ops EXCEPT !.write_fail = @ + 1]
            /\ UNCHANGED <<write_lock, writes>>
       ELSE /\ tasks' = [tasks EXCEPT ![k].pc = "writing", ![k].w = TRUE]
            /\ write_lock' = k
            /\ writes' = Append(writes, <<tasks[k].p, now>>)
            /\ UNCHANGED <<ui_log, ops>>
    /\ UNCHANGED <<inputvars, notifvars, appvars, fnvars, now, link, pc_run, client, status_notify, battery_notify, stopped,
                   stop_event, pc_stop, stop_calls, breq,
                   rl_last_payload, rl_last_time, pending_payload, last_sent_payload,
                   last_payload, battery_pct>>

\* Mutant: a failed write retried at once by the same call.
WriteDoneRetry(k, ok) ==
    /\ tasks[k].pc = "writing"
    /\ ok => link = "up"
    /\ IF ok
       THEN /\ last_sent_payload' = tasks[k].p
            /\ last_payload' = tasks[k].p
            /\ ui_log' = queue_ui(ui_log, "payload", tasks[k].p)
            /\ tasks' = [tasks EXCEPT ![k].pc = "ok"]
            /\ write_lock' = 0
            /\ UNCHANGED <<ops, writes>>
       ELSE /\ Len(writes) < 2 * NTasks
            /\ ui_log' = queue_ui(ui_log, "error", <<>>)
            /\ writes' = Append(writes, <<tasks[k].p, now>>)
            /\ ops' = [ops EXCEPT !.write_fail = @ + 1]
            /\ UNCHANGED <<last_sent_payload, last_payload, tasks, write_lock>>
    /\ UNCHANGED <<inputvars, notifvars, appvars, fnvars, now, link, pc_run, client, status_notify,
                   battery_notify, stopped, stop_event, pc_stop, stop_calls, waiters, breq,
                   rl_last_payload, rl_last_time, pending_payload, battery_pct>>

\* write_gatt_char returns (the payload is recorded and posted) or raises
\* (the error is posted); the lock is released.
write_done(k, ok) ==
    /\ tasks[k].pc = "writing"
    /\ ok => link = "up"
    /\ IF ok
       THEN /\ last_sent_payload' = tasks[k].p
            /\ last_payload' = tasks[k].p
            /\ ui_log' = queue_ui(ui_log, "payload", tasks[k].p)
            /\ tasks' = [tasks EXCEPT ![k].pc = "ok"]
       ELSE /\ ui_log' = queue_ui(ui_log, "error", <<>>)
            /\ tasks' = [tasks EXCEPT ![k].pc = "err"]
            /\ UNCHANGED <<last_sent_payload, last_payload>>
    /\ write_lock' = 0

\* (history) the outcome of the write counted.
write_ops(ok) == IF ok THEN ops ELSE [ops EXCEPT !.write_fail = @ + 1]

\* The write of a call nobody waits for returns or raises.
WriteDone(k, ok) ==
    /\ write_done(k, ok)
    /\ ops' = write_ops(ok)
    /\ UNCHANGED <<inputvars, notifvars, appvars, fnvars, now, link, pc_run, client, status_notify, battery_notify, stopped,
                   stop_event, pc_stop, stop_calls, waiters, breq,
                   rl_last_payload, rl_last_time, pending_payload,
                   battery_pct, writes>>

----------------------------------------------------------------------------
(* BleController.request_battery *)

\* request_battery() is called as call k: a no-op when stopped, the "queued"
\* message when there is no client, else _read_battery awaits its read.
RequestBattery(k) ==
    /\ breq[k] = "new"
    /\ \A j \in 1..(k - 1) : breq[j] # "new"
    /\ IF stopped
       THEN breq' = [breq EXCEPT ![k] = "noop"] /\ ui_log' = ui_log
       ELSE IF client = "None"
       THEN /\ breq' = [breq EXCEPT ![k] = "message"]
            /\ ui_log' = queue_ui(ui_log, "message", <<>>)
       ELSE breq' = [breq EXCEPT ![k] = "reading"] /\ ui_log' = ui_log
    /\ UNCHANGED <<inputvars, notifvars, appvars, fnvars, now, link, pc_run, client, status_notify, battery_notify, stopped,
                   stop_event, pc_stop, stop_calls, write_lock, waiters, tasks,
                   rl_last_payload, rl_last_time, pending_payload, last_sent_payload,
                   last_payload, battery_pct, writes, ops>>

\* The requested read returns or raises.
BatteryReadDone(k, ok, data) ==
    /\ breq[k] = "reading"
    /\ ok => link = "up"
    /\ battery_pct' = read_battery_pct(ok, data, battery_pct)
    /\ ui_log' = read_battery_log(ok, data, ui_log)
    /\ ops' = IF ok THEN ops ELSE [ops EXCEPT !.read_fail = @ + 1]
    /\ breq' = [breq EXCEPT ![k] = "done"]
    /\ UNCHANGED <<inputvars, notifvars, appvars, fnvars, now, link, pc_run, client, status_notify, battery_notify, stopped,
                   stop_event, pc_stop, stop_calls, write_lock, waiters, tasks,
                   rl_last_payload, rl_last_time, pending_payload, last_sent_payload,
                   last_payload, writes>>

----------------------------------------------------------------------------
(* The session, from construction to the end of run() *)

RunStep ==
    \/ RunStart
    \/ \E ok \in BOOLEAN : RunConnect(ok)
    \/ \E ok \in BOOLEAN : RunStatusNotify(ok)
    \/ \E ok \in BOOLEAN : RunBatteryNotify(ok)
    \/ \E ok \in BOOLEAN, data \in ReadData : RunReadBattery(ok, data)
    \/ RunWake
    \/ \E ok \in BOOLEAN : RunDisconnect(ok)
    \/ RunFinStatus
    \/ RunFinBattery

StopStep == StopStatus \/ StopBattery

SendStep ==
    \/ \E k \in DOMAIN tasks : LockGrant(k)
    \/ \E k \in DOMAIN tasks, ok \in BOOLEAN : WriteDone(k, ok)

BatteryStep == \E k \in 1..NBat, ok \in BOOLEAN, data \in ReadData : BatteryReadDone(k, ok, data)

\* The callers of the session's API.
Calls ==
    \/ StopCall
    \/ \E k \in 1..NSessionSends, p \in Payloads : SendControl(k, p)
    \/ \E k \in 1..NBat : RequestBattery(k)

\* Every link operation may fail here at any time, so the dropping of the link,
\* which only forces such failures, is left to FairSpec.
Next == RunStep \/ StopStep \/ SendStep \/ BatteryStep \/ Calls

Spec == Init /\ [][Next]_vars

\* The session without request_battery calls, for the properties of what
\* eventually happens.  The event loop runs every task that is ready, and
\* every link operation returns or raises in the end.  Nothing obliges a
\* caller to call, or the link to drop.
FairNext ==
    \/ RunStep
    \/ StopStep
    \/ SendStep
    \/ StopCall
    \/ \E k \in 1..NSessionSends, p \in Payloads : SendControl(k, p)
    \/ LinkDrop

FairSpec ==
    /\ Init
    /\ [][FairNext]_vars
    /\ WF_vars(RunStep)
    /\ WF_vars(StopStep)
    /\ WF_vars(SendStep)

----------------------------------------------------------------------------
(* The connected session: send_control calls against the clock *)

\* The session as run() leaves it when it starts waiting for the stop event:
\* connected, both subscriptions made, the battery read.
ConnectedInit ==
    /\ now = 0
    /\ link = "up"
    /\ pc_run = "waiting"
    /\ client = "client"
    /\ status_notify = TRUE
    /\ battery_notify = TRUE
    /\ stopped = FALSE
    /\ stop_event = FALSE
    /\ pc_stop = "idle"
    /\ stop_calls = 0
    /\ write_lock = 0
    /\ waiters = <<>>
    /\ tasks = [k \in Slots |-> TaskNew]
    /\ breq = [k \in 1..NBat |-> "new"]
    /\ rl_last_payload = None
    /\ rl_last_time = 0
    /\ pending_payload = None
    /\ last_sent_payload = None
    /\ last_payload = EmptyBytes
    /\ battery_pct = Some(80)
    /\ ui_log = << Event("message", <<>>), Event("connected", <<>>), Event("battery", <<80>>) >>
    /\ writes = <<>>
    /\ ops = [OpsInit EXCEPT !.connect = "ok", !.sub_status = "ok", !.sub_battery = "ok"]
    /\ InitNotif
    /\ InitInput
    /\ state = StateNew
    /\ running = TRUE
    /\ pc_app = "mainloop"
    /\ pc_ui = "get"
    /\ consumed = 0
    /\ shut = [k \in Slots |-> "none"]
    /\ ble_cancelled = FALSE
    /\ InitCalls

SendNext ==
    \/ \E d \in Deltas : Tick(d)
    \/ \E k \in 1..NTasks, p \in Payloads : SendControl(k, p)
    \/ SendStep

SendSpec == ConnectedInit /\ [][SendNext]_vars

----------------------------------------------------------------------------
(* The rate limiter alone: should_send calls against the clock *)

\* should_send(p) is called as call k; the call and its result are recorded.
ShouldSendCall(k, p) ==
    /\ tasks[k].pc = "new"
    /\ \A j \in 1..(k - 1) : tasks[j].pc # "new"
    /\ \E res \in BOOLEAN :
        /\ should_send(p, res)
        /\ tasks' = [tasks EXCEPT ![k] = [pc |-> IF res THEN "admitted" ELSE "rejected",
                                          p |-> p, t |-> now, w |-> FALSE]]
    /\ UNCHANGED <<inputvars, notifvars, appvars, fnvars, now, link, pc_run, client, status_notify, battery_notify, stopped,
                   stop_event, pc_stop, stop_calls, write_lock, waiters, breq,
                   pending_payload, last_sent_payload,
                   last_payload, battery_pct, ui_log, writes, ops>>

LimiterNext ==
    \/ \E d \in LimiterDeltas : Tick(d)
    \/ \E k \in 1..NTasks, p \in Payloads : ShouldSendCall(k, p)

\* A fresh limiter.
LimiterInit == Init

LimiterSpec == LimiterInit /\ [][LimiterNext]_vars

----------------------------------------------------------------------------
(* The notification handlers *)

\* number of notifications delivered
NNotif == 3

\* bytes.hex(): two lowercase hexadecimal digits per byte.
HexDigits == <<"0", "1", "2", "3", "4", "5", "6", "7",
               "8", "9", "a", "b", "c", "d", "e", "f">>
Hex(data) ==
    [i \in 1..(2 * Len(data)) |->
        IF i % 2 = 1 THEN HexDigits[(data[(i + 1) \div 2] \div 16) + 1]
                     ELSE HexDigits[(data[i \div 2] % 16) + 1]]

\* Mutant: the 8-byte record with left and right taken from each other's byte.
DecodeSwapped(data) ==
    LET length == Len(data)
    IN  IF length = 1
        THEN [length |-> length, battery_pct |-> data[1]]
        ELSE IF length = 8
        THEN [length |-> length, mode |-> data[1], forward |-> data[2],
              reverse |-> data[3], left |-> data[5], right |-> data[4],
              lights |-> data[6], turbo |-> data[7], donut |-> data[8]]
        ELSE [length |-> length, raw |-> Hex(data)]

\* The dict returned for the bytes of a notification.
decode_status_payload(data) ==
    LET length == Len(data)
    IN  IF length = 1
        THEN [length |-> length, battery_pct |-> data[1]]
        ELSE IF length = 8
        THEN [length |-> length, mode |-> data[1], forward |-> data[2],
              reverse |-> data[3], left |-> data[4], right |-> data[5],
              lights |-> data[6], turbo |-> data[7], donut |-> data[8]]
        ELSE [length |-> length, raw |-> Hex(data)]

\* What the peripheral notifies on the two characteristics: any bytes, of
\* which a byte above 100 stands for the values that are no percentage.
Zero8 == [i \in 1..8 |-> 0]
StatusData == { <<>>, Zero8, [Zero8 EXCEPT ![2] = 1], <<90>> }
BatteryData == { <<>>, <<80>>, <<70>>, <<200>> }

\* _status_handler is called with the bytes of a status notification.
StatusHandler(data) ==
    /\ status_notify /\ link = "up"
    /\ Len(rx) < NNotif
    /\ rx' = Append(rx, <<"status", data>>)
    /\ LET hex_data == Hex(data)
       IN  IF hex_data = ctl_last_status_hex
           THEN UNCHANGED <<ctl_last_status_hex, last_status, last_status_hex, ui_log>>
           ELSE /\ ctl_last_status_hex' = hex_data
                /\ last_status' = decode_status_payload(data)
                /\ last_status_hex' = hex_data
                /\ ui_log' = queue_ui(ui_log, "status", <<>>)
    /\ UNCHANGED <<inputvars, last_battery, appvars, fnvars, now, link, pc_run, client, status_notify,
                   battery_notify, stopped, stop_event, pc_stop, stop_calls, write_lock,
                   waiters, tasks, breq, rl_last_payload, rl_last_time, pending_payload,
                   last_sent_payload, last_payload, battery_pct, writes, ops>>

\* _battery_handler is called with the bytes of a battery notification.
BatteryHandler(data) ==
    /\ battery_notify /\ link = "up"
    /\ Len(rx) < NNotif
    /\ rx' = Append(rx, <<"battery", data>>)
    /\ IF data = <<>> \/ Some(data[1]) = last_battery
       THEN UNCHANGED <<last_battery, battery_pct, ui_log>>
       ELSE /\ last_battery' = Some(data[1])
            /\ battery_pct' = Some(data[1])
            /\ ui_log' = queue_ui(ui_log, "battery", <<data[1]>>)
    /\ UNCHANGED <<inputvars, ctl_last_status_hex, last_status, last_status_hex,
                   appvars, fnvars, now, link, pc_run, client, status_notify,
                   battery_notify, stopped, stop_event, pc_stop, stop_calls, write_lock,
                   waiters, tasks, breq, rl_last_payload, rl_last_time, pending_payload,
                   last_sent_payload, last_payload, writes, ops>>

\* The connected session receiving notifications, with request_battery calls.
NotifyNext ==
    \/ \E data \in StatusData : StatusHandler(data)
    \/ \E data \in BatteryData : BatteryHandler(data)
    \/ \E k \in 1..NBat : RequestBattery(k)
    \/ BatteryStep

NotifySpec == ConnectedInit /\ [][NotifyNext]_vars

----------------------------------------------------------------------------
(* PygameApp: mainloop, shutdown, run's teardown and ui_consumer.

   loop.create_task(coro) only schedules coro: the task starts at a later
   turn of the event loop, in the order of creation, and mainloop resumes
   from its asyncio.sleep(0) after the tasks created in its frame have
   started.  A coroutine awaited directly (shutdown awaiting send_control
   and stop) continues in the stretch in which the awaited one returns. *)

Payload(st) ==
    build_control_payload(st.mode, st.throttle, st.steering, st.lights, st.turbo, st.donut)

\* The next free call number, within the bound.
FreeSlot(k) ==
    /\ k <= NAppTasks
    /\ tasks[k].pc = "new"
    /\ \A j \in 1..(k - 1) : tasks[j].pc # "new"

\* Task k is the oldest task created and not yet started.
Startable(k) ==
    /\ tasks[k].pc = "created"
    /\ \A j \in 1..(k - 1) : tasks[j].pc # "created"

\* mainloop handles an input that sets the throttle and creates the task of
\* send_control(build_control_payload(self.state)).
InputSend(k, th) ==
    /\ pc_app = "mainloop" /\ running
    /\ FreeSlot(k)
    /\ state' = [state EXCEPT !.throttle = th]
    /\ tasks' = [tasks EXCEPT ![k] = [pc |-> "created", p |-> Payload(state'), t |-> now, w |-> FALSE]]
    /\ UNCHANGED <<inputvars, notifvars, fnvars, running, pc_app, pc_ui, consumed, shut, ble_cancelled,
                   now, link, pc_run, client, status_notify, battery_notify, stopped,
                   stop_event, pc_stop, stop_calls, write_lock, waiters, breq,
                   rl_last_payload, rl_last_time, pending_payload, last_sent_payload,
                   last_payload, battery_pct, ui_log, writes, ops>>

\* mainloop handles pygame.QUIT or the key q: the task of shutdown() is created.
InputQuit(k) ==
    /\ pc_app = "mainloop" /\ running
    /\ FreeSlot(k)
    /\ tasks' = [tasks EXCEPT ![k].pc = "created"]
    /\ shut' = [shut EXCEPT ![k] = "created"]
    /\ UNCHANGED <<inputvars, notifvars, fnvars, state, running, pc_app, pc_ui, consumed, ble_cancelled,
                   now, link, pc_run, client, status_notify, battery_notify, stopped,
                   stop_event, pc_stop, stop_calls, write_lock, waiters, breq,
                   rl_last_payload, rl_last_time, pending_payload, last_sent_payload,
                   last_payload, battery_pct, ui_log, writes, ops>>

\* A created send_control task starts.
SendStart(k) ==
    /\ Startable(k)
    /\ shut[k] = "none"
    /\ send_control(k, tasks[k].p)
    /\ ops' = IF pc_run = "done" THEN [ops EXCEPT !.late_send = TRUE] ELSE ops
    /\ UNCHANGED <<inputvars, notifvars, appvars, fnvars,
                   now, link, pc_run, client, status_notify, battery_notify, stopped,
                   stop_event, pc_stop, stop_calls, breq,
                   pending_payload, last_sent_payload,
                   last_payload, battery_pct, ui_log>>

\* The lock granted to, and the write finished of, a send_control task.
TaskLockGrant(k) == shut[k] = "none" /\ LockGrant(k)
TaskWriteDone(k, ok) == shut[k] = "none" /\ WriteDone(k, ok)

\* stop() awaited by shutdown(), up to its first stop_notify or its return;
\* o is ops so far in the stretch.
stop_enter(o) ==
    /\ stop_calls' = stop_calls + 1
    /\ IF stopped
       THEN /\ ops' = o
            /\ UNCHANGED <<stopped, stop_event, pc_stop>>
       ELSE /\ stopped' = TRUE
            /\ stop_event' = TRUE
            /\ IF client = "None"
               THEN pc_stop' = "done" /\ ops' = o
               ELSE IF status_notify
               THEN pc_stop' = "status" /\ ops' = [o EXCEPT !.unsub_status = @ + 1]
               ELSE IF battery_notify
               THEN pc_stop' = "battery" /\ ops' = [o EXCEPT !.unsub_battery = @ + 1]
               ELSE pc_stop' = "done" /\ ops' = o

\* That stop() returns without suspending.
StopReturns == stopped \/ client = "None" \/ (~status_notify /\ ~battery_notify)

\* shutdown() past its send_control: stop() is awaited.
shutdown_stop(k, o) ==
    /\ stop_enter(o)
    /\ shut' = [shut EXCEPT ![k] = IF StopReturns THEN "done" ELSE "stop"]

\* shutdown() from its first line, as call k: the flag, the neutral state and
\* send_control; and stop() when send_control returned without suspending.
shutdown(k) ==
    /\ running' = FALSE
    /\ throttle_keys_down' = {}
    /\ steering_keys_down' = {}
    /\ toggle_keys_down' = {}
    /\ UNCHANGED <<last_throttle_key, last_steering_key>>
    /\ state' = [state EXCEPT !.throttle = 0, !.steering = 0]
    /\ send_control(k, Payload(state'))
    /\ IF tasks'[k].pc \in {"noop", "rejected"}
       THEN shutdown_stop(k, ops)
       ELSE /\ shut' = [shut EXCEPT ![k] = "send"]
            /\ UNCHANGED <<stopped, stop_event, pc_stop, stop_calls, ops>>

\* A created shutdown task starts; it returns at once when not running.
ShutdownStart(k) ==
    /\ Startable(k)
    /\ shut[k] = "created"
    /\ IF ~running
       THEN /\ tasks' = [tasks EXCEPT ![k].pc = "unused"]
            /\ shut' = [shut EXCEPT ![k] = "noop"]
            /\ UNCHANGED <<inputvars, state, running, rl_last_payload, rl_last_time, write_lock,
                           waiters, writes, stopped, stop_event, pc_stop, stop_calls, ops>>
       ELSE shutdown(k)
    /\ UNCHANGED <<notifvars, fnvars, pc_app, pc_ui, consumed, ble_cancelled,
                   now, link, pc_run, client, status_notify, battery_notify, breq,
                   pending_payload, last_sent_payload, last_payload, battery_pct, ui_log>>

\* The write lock goes to shutdown's send_control: its write starts, or
\* self._client is None and the error is posted, and shutdown goes on to stop().
ShutdownLockGrant(k) ==
    /\ shut[k] = "send"
    /\ write_lock = 0
    /\ waiters # <<>>
    /\ k = Head(waiters)
    /\ waiters' = Tail(waiters)
    /\ IF client = "None"
       THEN /\ tasks' = [tasks EXCEPT ![k].pc = "err"]
            /\ ui_log' = queue_ui(ui_log, "error", <<>>)
            /\ shutdown_stop(k, [ops EXCEPT !.write_fail = @ + 1])
            /\ UNCHANGED <<write_lock, writes>>
       ELSE /\ tasks' = [tasks EXCEPT ![k].pc = "writing", ![k].w = TRUE]
            /\ write_lock' = k
            /\ writes' = Append(writes, <<tasks[k].p, now>>)
            /\ UNCHANGED <<ui_log, ops, shut, stopped, stop_event, pc_stop, stop_calls>>
    /\ UNCHANGED <<inputvars, notifvars, fnvars, state, running, pc_app, pc_ui, consumed, ble_cancelled,
                   now, link, pc_run, client, status_notify, battery_notify, breq,
                   rl_last_payload, rl_last_time, pending_payload, last_sent_payload,
                   last_payload, battery_pct>>

\* The write of shutdown's send_control returns or raises, and shutdown goes
\* on to stop().
ShutdownWriteDone(k, ok) ==
    /\ shut[k] = "send"
    /\ write_done(k, ok)
    /\ shutdown_stop(k, write_ops(ok))
    /\ UNCHANGED <<inputvars, notifvars, fnvars, state, running, pc_app, pc_ui, consumed, ble_cancelled,
                   now, link, pc_run, client, status_notify, battery_notify, waiters, breq,
                   rl_last_payload, rl_last_time, pending_payload, battery_pct, writes>>

\* The stop() awaited by shutdown has returned: shutdown returns.
ShutdownReturn(k) ==
    /\ shut[k] = "stop"
    /\ pc_stop = "done"
    /\ shut' = [shut EXCEPT ![k] = "done"]
    /\ UNCHANGED <<inputvars, notifvars, fnvars, state, running, pc_app, pc_ui, consumed, ble_cancelled,
                   now, link, pc_run, client, status_notify, battery_notify, stopped,
                   stop_event, pc_stop, stop_calls, write_lock, waiters, tasks, breq,
                   rl_last_payload, rl_last_time, pending_payload, last_sent_payload,
                   last_payload, battery_pct, ui_log, writes, ops>>

\* mainloop finds self.running false after its sleep(0) and returns; in
\* run()'s finally shutdown() returns at once and gather(ble_task) is awaited.
MainExit ==
    /\ pc_app = "mainloop" /\ ~running
    /\ \A k \in Slots : tasks[k].pc # "created"
    /\ pc_app' = "gather_ble"
    /\ UNCHANGED <<inputvars, notifvars, fnvars, state, running, pc_ui, consumed, shut, ble_cancelled,
                   now, link, pc_run, client, status_notify, battery_notify, stopped,
                   stop_event, pc_stop, stop_calls, write_lock, waiters, tasks, breq,
                   rl_last_payload, rl_last_time, pending_payload, last_sent_payload,
                   last_payload, battery_pct, ui_log, writes, ops>>

\* mainloop raises (or is cancelled) while running: run()'s finally awaits
\* shutdown(), whose send_control is call k.
MainRaise(k) ==
    /\ pc_app = "mainloop" /\ running
    /\ FreeSlot(k)
    /\ shutdown(k)
    /\ pc_app' = "shutdown"
    /\ UNCHANGED <<notifvars, fnvars, pc_ui, consumed, ble_cancelled,
                   now, link, pc_run, client, status_notify, battery_notify, breq,
                   pending_payload, last_sent_payload, last_payload, battery_pct, ui_log>>

\* The shutdown() awaited by run()'s finally has returned: gather(ble_task).
MainShutdownDone ==
    /\ pc_app = "shutdown"
    /\ \E k \in Slots : shut[k] = "done"
    /\ pc_app' = "gather_ble"
    /\ UNCHANGED <<inputvars, notifvars, fnvars, state, running, pc_ui, consumed, shut, ble_cancelled,
                   now, link, pc_run, client, status_notify, battery_notify, stopped,
                   stop_event, pc_stop, stop_calls, write_lock, waiters, tasks, breq,
                   rl_last_payload, rl_last_time, pending_payload, last_sent_payload,
                   last_payload, battery_pct, ui_log, writes, ops>>

\* Mutant: the sentinel posted before the session's task is awaited.
MainGatherBleEarly ==
    /\ pc_app = "gather_ble"
    /\ ui_log' = Append(ui_log, Event("shutdown", <<>>))
    /\ pc_app' = "gather_ui"
    /\ UNCHANGED <<inputvars, notifvars, fnvars, state, running, pc_ui, consumed, shut, ble_cancelled,
                   now, link, pc_run, client, status_notify, battery_notify, stopped,
                   stop_event, pc_stop, stop_calls, write_lock, waiters, tasks, breq,
                   rl_last_payload, rl_last_time, pending_payload, last_sent_payload,
                   last_payload, battery_pct, writes, ops>>

\* The session's task has finished: the sentinel is put (put_nowait, any
\* exception swallowed) and gather(ui_task) is awaited.
MainGatherBle ==
    /\ pc_app = "gather_ble"
    /\ pc_run = "done"
    /\ ui_log' = queue_ui(ui_log, "shutdown", <<>>)
    /\ pc_app' = "gather_ui"
    /\ UNCHANGED <<inputvars, notifvars, fnvars, state, running, pc_ui, consumed, shut, ble_cancelled,
                   now, link, pc_run, client, status_notify, battery_notify, stopped,
                   stop_event, pc_stop, stop_calls, write_lock, waiters, tasks, breq,
                   rl_last_payload, rl_last_time, pending_payload, last_sent_payload,
                   last_payload, battery_pct, writes, ops>>

\* ui_consumer has finished: pygame.quit() and run() returns.
MainGatherUi ==
    /\ pc_app = "gather_ui"
    /\ pc_ui = "done"
    /\ pc_app' = "done"
    /\ UNCHANGED <<inputvars, notifvars, fnvars, state, running, pc_ui, consumed, shut, ble_cancelled,
                   now, link, pc_run, client, status_notify, battery_notify, stopped,
                   stop_event, pc_stop, stop_calls, write_lock, waiters, tasks, breq,
                   rl_last_payload, rl_last_time, pending_payload, last_sent_payload,
                   last_payload, battery_pct, ui_log, writes, ops>>

\* Mutant: the data of an item stored as last_payload whatever its kind.
HandlePayloadAnyKind(item) == item.data

\* _handle_ui_message: what the item does to ControlState (self.message, which
\* only the display reads, is left out).
handle_battery(item) == IF item.kind = "battery" THEN Some(item.data[1]) ELSE battery_pct
handle_payload(item) == IF item.kind = "payload" THEN item.data ELSE last_payload

\* Mutant: a consumer that handles the sentinel like any other item.
UiConsumeNoBreak ==
    /\ pc_ui = "get"
    /\ ui_queue # <<>>
    /\ consumed' = consumed + 1
    /\ battery_pct' = handle_battery(Head(ui_queue))
    /\ last_payload' = handle_payload(Head(ui_queue))
    /\ UNCHANGED <<inputvars, notifvars, fnvars, state, running, pc_app, pc_ui, shut, ble_cancelled,
                   now, link, pc_run, client, status_notify, battery_notify, stopped,
                   stop_event, pc_stop, stop_calls, write_lock, waiters, tasks, breq,
                   rl_last_payload, rl_last_time, pending_payload, last_sent_payload,
                   ui_log, writes, ops>>

\* ui_consumer gets the next item of the queue: it breaks on the sentinel
\* and handles any other item.
UiConsume ==
    /\ pc_ui = "get"
    /\ ui_queue # <<>>
    /\ consumed' = consumed + 1
    /\ IF Head(ui_queue).kind = "shutdown"
       THEN /\ pc_ui' = "done"
            /\ UNCHANGED <<battery_pct, last_payload>>
       ELSE /\ pc_ui' = pc_ui
            /\ battery_pct' = handle_battery(Head(ui_queue))
            /\ last_payload' = handle_payload(Head(ui_queue))
    /\ UNCHANGED <<inputvars, notifvars, fnvars, state, running, pc_app, shut, ble_cancelled,
                   now, link, pc_run, client, status_notify, battery_notify, stopped,
                   stop_event, pc_stop, stop_calls, write_lock, waiters, tasks, breq,
                   rl_last_payload, rl_last_time, pending_payload, last_sent_payload,
                   ui_log, writes, ops>>

\* PygameApp.run() up to mainloop's first sleep(0): both tasks created,
\* self.running set.
AppInit ==
    /\ InitSession
    /\ InitNotif
    /\ InitInput
    /\ state = StateNew
    /\ running = TRUE
    /\ pc_app = "mainloop"
    /\ pc_ui = "get"
    /\ consumed = 0
    /\ shut = [k \in Slots |-> "none"]
    /\ ble_cancelled = FALSE
    /\ InitCalls

\* The tasks of the application that the event loop runs.
InputStep ==
    \/ \E k \in Slots, th \in {0, 1} : InputSend(k, th)
    \/ \E k \in Slots : InputQuit(k)
    \/ \E k \in Slots : MainRaise(k)

TaskStep ==
    \/ \E k \in Slots : SendStart(k)
    \/ \E k \in Slots : ShutdownStart(k)
    \/ \E k \in Slots : TaskLockGrant(k)
    \/ \E k \in Slots, ok \in BOOLEAN : TaskWriteDone(k, ok)
    \/ \E k \in Slots : ShutdownLockGrant(k)
    \/ \E k \in Slots, ok \in BOOLEAN : ShutdownWriteDone(k, ok)
    \/ \E k \in Slots : ShutdownReturn(k)

MainStep == MainExit \/ MainShutdownDone \/ MainGatherBle \/ MainGatherUi

\* The session's task on a link whose battery characteristic answers (the
\* subscription succeeds, the read returns one byte); what its failures do
\* to the session is left to Spec.
AppRunStep ==
    \/ RunStart
    \/ \E ok \in BOOLEAN : RunConnect(ok)
    \/ \E ok \in BOOLEAN : RunStatusNotify(ok)
    \/ RunBatteryNotify(TRUE)
    \/ RunReadBattery(TRUE, <<80>>)
    \/ RunWake
    \/ \E ok \in BOOLEAN : RunDisconnect(ok)
    \/ RunFinStatus
    \/ RunFinBattery

AppNext == InputStep \/ TaskStep \/ MainStep \/ UiConsume \/ AppRunStep \/ StopStep

\* The event loop runs every task that is ready and every link operation
\* returns or raises in the end; no input is obliged to come.
AppSpec ==
    /\ AppInit
    /\ [][AppNext]_vars
    /\ WF_vars(TaskStep)
    /\ WF_vars(MainStep)
    /\ WF_vars(UiConsume)
    /\ WF_vars(AppRunStep)
    /\ WF_vars(StopStep)

----------------------------------------------------------------------------
(* The pure functions called directly *)

\* The ControlState values the inputs produce: mode toggles between 1 and 2,
\* throttle and steering are -1, 0 or 1, the three switches are on or off.
ControlStates ==
    [mode : {1, 2}, throttle : {-1, 0, 1}, steering : {-1, 0, 1},
     lights : BOOLEAN, turbo : BOOLEAN, donut : BOOLEAN]

\* build_control_payload(state) is called.
BuildPayload ==
    /\ call_result = <<>>
    /\ call_arg' = state
    /\ call_result' = Payload(state)
    /\ UNCHANGED <<inputvars, notifvars, appvars,
                   now, link, pc_run, client, status_notify, battery_notify, stopped,
                   stop_event, pc_stop, stop_calls, write_lock, waiters, tasks, breq,
                   rl_last_payload, rl_last_time, pending_payload, last_sent_payload,
                   last_payload, battery_pct, ui_log, writes, ops>>

PayloadInit ==
    /\ InitSession
    /\ InitNotif
    /\ InitInput
    /\ state \in ControlStates
    /\ running = FALSE
    /\ pc_app = "init"
    /\ pc_ui = "new"
    /\ consumed = 0
    /\ shut = [k \in Slots |-> "none"]
    /\ ble_cancelled = FALSE
    /\ InitCalls

PayloadSpec == PayloadInit /\ [][BuildPayload]_vars

\* longest notification decoded
MaxDataLen == 9

\* The byte sequences decoded: every length up to MaxDataLen, of these bytes.
DataBytes == {0, 171}
DecodeInputs == UNION { [1..n -> DataBytes] : n \in 0..MaxDataLen }

\* decode_status_payload(data) is called.
Decode ==
    /\ call_result = <<>>
    /\ call_result' = decode_status_payload(call_arg)
    /\ UNCHANGED <<inputvars, notifvars, appvars, call_arg,
                   now, link, pc_run, client, status_notify, battery_notify, stopped,
                   stop_event, pc_stop, stop_calls, write_lock, waiters, tasks, breq,
                   rl_last_payload, rl_last_time, pending_payload, last_sent_payload,
                   last_payload, battery_pct, ui_log, writes, ops>>

DecodeInit ==
    /\ InitSession
    /\ InitNotif
    /\ InitInput
    /\ InitApp
    /\ call_arg \in DecodeInputs
    /\ call_result = <<>>

DecodeSpec == DecodeInit /\ [][Decode]_vars

----------------------------------------------------------------------------
(* The cancellation of the session's task *)

\* The task of run() is cancelled while run() is suspended: CancelledError is
\* raised at its await.  No "except Exception" catches it.  Raised in the
\* body of "async with", it sends run() into __aexit__, which awaits the
\* disconnect; raised in the connect or in the disconnect, it sends run()
\* into the finally clause; raised in a stop_notify of the finally clause, it
\* clears that flag (the inner finally) and leaves run() before the other
\* stop_notify, before self._client = None and before the disconnected event.
RunCancel ==
    /\ ~ble_cancelled
    /\ pc_run \notin {"start", "done"}
    /\ ble_cancelled' = TRUE
    /\ IF pc_run \in {"enable_status", "enable_battery", "read_battery", "waiting"}
       THEN /\ pc_run' = "closing"
            /\ UNCHANGED <<client, status_notify, battery_notify, ui_log, ops>>
       ELSE IF pc_run \in {"connecting", "closing"}
       THEN /\ RunFinally(ui_log, ops)
            /\ UNCHANGED <<status_notify, battery_notify>>
       ELSE /\ pc_run' = "done"
            /\ status_notify' = IF pc_run = "fin_status" THEN FALSE ELSE status_notify
            /\ battery_notify' = IF pc_run = "fin_battery" THEN FALSE ELSE battery_notify
            /\ UNCHANGED <<client, ui_log, ops>>
    /\ UNCHANGED <<inputvars, notifvars, fnvars, state, running, pc_app, pc_ui, consumed, shut,
                   now, link, stopped, stop_event, pc_stop, stop_calls, write_lock,
                   waiters, tasks, breq, rl_last_payload, rl_last_time, pending_payload,
                   last_sent_payload, last_payload, battery_pct, writes>>

\* The session's task with stop() calls and a cancellation.
CancelNext == RunStep \/ StopStep \/ StopCall \/ RunCancel

CancelSpec == Init /\ [][CancelNext]_vars

----------------------------------------------------------------------------
(* PygameApp: the keyboard and gamepad handlers of mainloop.

   A frame of mainloop handles the pending events, then reads the gamepad
   when there is one, then sleeps; the handlers below are the parts of a
   frame, each enabled while mainloop is in its loop. *)

\* The keys pressed and released: the four direction keys, the lights toggle
\* and the quit key.
Keys == {"w", "s", "a", "d", "l", "q"}

\* Joystick.get_axis(), in tenths, and the threshold 0.5 of the handler.
AxisValues == {-10, 0, 10}
AxisThreshold == 5

\* The next free call number for a task created by an input handler.
FreeInputSlot(k) ==
    /\ k <= NInputTasks
    /\ tasks[k].pc = "new"
    /\ \A j \in 1..(k - 1) : tasks[j].pc # "new"

\* new_value of _update_throttle_from_keys and _update_steering_from_keys.
throttle_from_keys(down, last) ==
    IF "w" \in down /\ "s" \in down THEN (IF last = "w" THEN 1 ELSE -1)
    ELSE IF "w" \in down THEN 1
    ELSE IF "s" \in down THEN -1
    ELSE 0

steering_from_keys(down, last) ==
    IF "a" \in down /\ "d" \in down THEN (IF last = "a" THEN -1 ELSE 1)
    ELSE IF "a" \in down THEN -1
    ELSE IF "d" \in down THEN 1
    ELSE 0

\* loop.create_task(self.ble.send_control(build_control_payload(st))) when
\* the handler asks for it (changed), else no task.
create_send(changed, st) ==
    IF changed
    THEN \E k \in Slots :
            /\ FreeInputSlot(k)
            /\ tasks' = [tasks EXCEPT ![k] = [pc |-> "created", p |-> Payload(st),
                                              t |-> now, w |-> FALSE]]
    ELSE tasks' = tasks

\* handle_keydown(key) in a frame of mainloop.
KeyDown(key) ==
    /\ pc_app = "mainloop" /\ running
    /\ IF key \in {"w", "s"}
       THEN /\ throttle_keys_down' = throttle_keys_down \cup {key}
            /\ last_throttle_key' = key
            /\ LET new_value == throttle_from_keys(throttle_keys_down', key)
               IN  /\ state' = [state EXCEPT !.throttle = new_value]
                   /\ create_send(new_value # state.throttle, state')
            /\ UNCHANGED <<steering_keys_down, toggle_keys_down, last_steering_key, shut>>
       ELSE IF key \in {"a", "d"}
       THEN /\ steering_keys_down' = steering_keys_down \cup {key}
            /\ last_steering_key' = key
            /\ LET new_value == steering_from_keys(steering_keys_down', key)
               IN  /\ state' = [state EXCEPT !.steering = new_value]
                   /\ create_send(new_value # state.steering, state')
            /\ UNCHANGED <<throttle_keys_down, toggle_keys_down, last_throttle_key, shut>>
       ELSE /\ toggle_keys_down' = toggle_keys_down \cup {key}
            /\ UNCHANGED <<throttle_keys_down, steering_keys_down,
                           last_throttle_key, last_steering_key>>
            /\ IF key \in toggle_keys_down
               THEN UNCHANGED <<state, tasks, shut>>
               ELSE IF key = "l"
               THEN /\ state' = [state EXCEPT !.lights = ~state.lights]
                    /\ create_send(TRUE, state')
                    /\ shut' = shut
               ELSE \E k \in Slots :
                    /\ FreeInputSlot(k)
                    /\ tasks' = [tasks EXCEPT ![k].pc = "created"]
                    /\ shut' = [shut EXCEPT ![k] = "created"]
                    /\ state' = state
    /\ UNCHANGED <<notifvars, fnvars, running, pc_app, pc_ui, consumed, ble_cancelled,
                   now, link, pc_run, client, status_notify, battery_notify, stopped,
                   stop_event, pc_stop, stop_calls, write_lock, waiters, breq,
                   rl_last_payload, rl_last_time, pending_payload, last_sent_payload,
                   last_payload, battery_pct, ui_log, writes, ops>>

\* handle_keyup(key) in a frame of mainloop.
KeyUp(key) ==
    /\ pc_app = "mainloop" /\ running
    /\ IF key \in throttle_keys_down
       THEN /\ throttle_keys_down' = throttle_keys_down \ {key}
            /\ LET new_value == throttle_from_keys(throttle_keys_down', last_throttle_key)
               IN  /\ state' = [state EXCEPT !.throttle = new_value]
                   /\ create_send(new_value # state.throttle, state')
            /\ UNCHANGED steering_keys_down
       ELSE IF key \in steering_keys_down
       THEN /\ steering_keys_down' = steering_keys_down \ {key}
            /\ LET new_value == steering_from_keys(steering_keys_down', last_steering_key)
               IN  /\ state' = [state EXCEPT !.steering = new_value]
                   /\ create_send(new_value # state.steering, state')
            /\ UNCHANGED throttle_keys_down
       ELSE UNCHANGED <<throttle_keys_down, steering_keys_down, state, tasks>>
    /\ toggle_keys_down' = toggle_keys_down \ {key}
    /\ UNCHANGED <<last_throttle_key, last_steering_key>>
    /\ UNCHANGED <<notifvars, fnvars, running, pc_app, pc_ui, consumed, shut, ble_cancelled,
                   now, link, pc_run, client, status_notify, battery_notify, stopped,
                   stop_event, pc_stop, stop_calls, write_lock, waiters, breq,
                   rl_last_payload, rl_last_time, pending_payload, last_sent_payload,
                   last_payload, battery_pct, ui_log, writes, ops>>

\* Mutant: the button fallback added to the throttle of the axis.
GamepadThrottleAdd(axis, button_b, button_a) ==
    LET from_axis == IF axis < -AxisThreshold THEN 1
                     ELSE IF axis > AxisThreshold THEN -1 ELSE 0
        buttonInput == IF button_b THEN -1 ELSE IF button_a THEN 1 ELSE 0
    IN  from_axis + buttonInput

\* update_gamepad_controls: the throttle from axis 3 and, when one of the
\* buttons B and A is down, from the button instead.
gamepad_throttle(axis, button_b, button_a) ==
    LET from_axis == IF axis < -AxisThreshold THEN 1
                     ELSE IF axis > AxisThreshold THEN -1 ELSE 0
        buttonInput == IF button_b THEN -1 ELSE IF button_a THEN 1 ELSE 0
    IN  IF buttonInput # 0 THEN buttonInput ELSE from_axis

\* update_gamepad_controls: the steering from axis 0.
gamepad_steering(axis) ==
    IF axis < -AxisThreshold THEN -1 ELSE IF axis > AxisThreshold THEN 1 ELSE 0

\* update_gamepad_controls() at the end of a frame, with a gamepad present:
\* throttle, steering and turbo are set from the axes and buttons read, and
\* the task of send_control is created.
GamepadUpdate(throttle, steering, button_b, button_a, trigger) ==
    /\ pc_app = "mainloop" /\ running
    /\ state' = [state EXCEPT !.throttle = gamepad_throttle(throttle, button_b, button_a),
                              !.steering = gamepad_steering(steering),
                              !.turbo = trigger]
    /\ create_send(TRUE, state')
    /\ UNCHANGED <<inputvars, notifvars, fnvars, running, pc_app, pc_ui, consumed, shut,
                   ble_cancelled,
                   now, link, pc_run, client, status_notify, battery_notify, stopped,
                   stop_event, pc_stop, stop_calls, write_lock, waiters, breq,
                   rl_last_payload, rl_last_time, pending_payload, last_sent_payload,
                   last_payload, battery_pct, ui_log, writes, ops>>

\* The inputs of mainloop and the tasks they create, on a session that has
\* not connected: every send_control returns at its guard.
InputNext ==
    \/ \E key \in Keys : KeyDown(key)
    \/ \E key \in Keys : KeyUp(key)
    \/ \E throttle, steering \in AxisValues, button_b, button_a, trigger \in BOOLEAN :
        GamepadUpdate(throttle, steering, button_b, button_a, trigger)
    \/ \E k \in Slots : SendStart(k)
    \/ \E k \in Slots : ShutdownStart(k)

InputSpec == AppInit /\ [][InputNext]_vars

----------------------------------------------------------------------------
(* Properties *)

Called(k) == tasks[k].pc # "new"

Max(S) == CHOOSE x \in S : \A y \in S : y <= x

\* The send_control tasks whose write_gatt_char call has started and has
\* neither returned nor raised.
WritesInFlight == { k \in DOMAIN tasks : tasks[k].pc = "writing" }

\* C1: at most one write to the control characteristic is in flight at any
\* time, and it is the write of the task that holds the write lock: no
\* write_gatt_char starts before the previous one has returned or raised.
C1_OneWriteInFlight ==
    /\ Cardinality(WritesInFlight) <= 1
    /\ \A k \in WritesInFlight : write_lock = k
    /\ write_lock # 0 => write_lock \in WritesInFlight

\* A write is in flight while two admitted calls wait for the lock.
C1_Witness ==
    /\ WritesInFlight # {}
    /\ Len(waiters) >= 2

\* The calls of should_send before call k that it admitted.
AdmittedBefore(k) == { j \in 1..(k - 1) : tasks[j].pc = "admitted" }

\* C2: should_send(p) at time t returns true exactly when p differs from the
\* last admitted payload (there may be none yet) or at least 100 ms have
\* passed since the last admission; the limiter holds the payload and time of
\* the last admission, so a rejection leaves them as they were.  With P
\* admitted at t0, P at t0+50 is rejected, P at t0+150 is admitted and a
\* different Q at t0+10 is admitted.
C2_ShouldSendAdmission ==
    /\ \A k \in 1..NTasks : Called(k) =>
          LET S == AdmittedBefore(k)
              adm == tasks[k].pc = "admitted"
          IN  /\ tasks[k].pc \in {"admitted", "rejected"}
              /\ S = {} => adm
              /\ S # {} =>
                   LET l == tasks[Max(S)]
                       gap == tasks[k].t - l.t
                   IN  /\ adm <=> (tasks[k].p # l.p \/ gap >= 100)
                       /\ (tasks[k].p = l.p /\ gap = 50) => ~adm
                       /\ (tasks[k].p = l.p /\ gap = 150) => adm
                       /\ (tasks[k].p # l.p /\ gap = 10) => adm
    /\ LET A == { k \in 1..NTasks : tasks[k].pc = "admitted" }
       IN  IF A = {}
           THEN rl_last_payload = None /\ rl_last_time = 0
           ELSE rl_last_payload = tasks[Max(A)].p /\ rl_last_time = tasks[Max(A)].t

\* P is admitted at t0, rejected at t0+50 and admitted at t0+150.
C2_Witness ==
    /\ tasks[1].pc = "admitted"
    /\ tasks[2].pc = "rejected" /\ tasks[2].p = tasks[1].p /\ tasks[2].t = tasks[1].t + 50
    /\ tasks[3].pc = "admitted" /\ tasks[3].p = tasks[1].p /\ tasks[3].t = tasks[1].t + 150

\* C3: two consecutive writes issued to the link that carry the same payload
\* are at least 100 ms apart.
C3_IdenticalWritesSpaced ==
    \A i \in 1..(Len(writes) - 1) :
        writes[i][1] = writes[i + 1][1] => writes[i + 1][2] - writes[i][2] >= 100

\* Calls k and k+1 of send_control carry the same payload less than 50 ms
\* apart, and both found the session connected and not stopped.
QuickRepeat(k) ==
    /\ Called(k) /\ Called(k + 1)
    /\ tasks[k].pc # "noop" /\ tasks[k + 1].pc # "noop"
    /\ tasks[k].p = tasks[k + 1].p
    /\ tasks[k + 1].t - tasks[k].t < 50

\* The rate limiter admitted call k.
Admitted(k) == tasks[k].pc \in {"lockwait", "writing", "ok", "err"}

ErrorSources ==
    (IF ops.connect = "fail" THEN 1 ELSE 0)
    + (IF ops.disconnect = "fail" THEN 1 ELSE 0)
    + ops.write_fail

\* The session's fields, the link and the operations started on it.
SessionState ==
    <<link, pc_run, client, status_notify, battery_notify, stopped, stop_event,
      pc_stop, write_lock, waiters, rl_last_payload, rl_last_time,
      pending_payload, last_sent_payload, last_payload, battery_pct, writes>>

\* The program's own state, without the history the model keeps beside it.
ProgramState == <<SessionState, ui_log, [k \in DOMAIN tasks |-> tasks[k].pc], breq>>

\* A step that is a stop() call finding the session already stopped.
StopAgain == stopped /\ stop_calls' = stop_calls + 1

\* C5: stop() called twice on a running session gives exactly one
\* disconnected event (never more than one, and one once run() has finished)
\* and no error event (an error event is posted only for a connect, a
\* disconnect or a control write that failed); the second call changes no
\* state, starts no link operation and posts nothing.
C5_StopTwice ==
    /\ [](/\ Count(ui_log, "disconnected") = (IF pc_run = "done" THEN 1 ELSE 0)
          /\ Count(ui_log, "error") = ErrorSources)
    /\ [][StopAgain =>
            /\ ProgramState' = ProgramState
            /\ ops' = [ops EXCEPT !.stop_again = ops'.stop_again]]_vars

\* stop() was called on the connected session and again after it had
\* returned; the session has ended with one disconnected and no error event.
C5_Witness ==
    /\ stop_calls = 2
    /\ ops.stop_again
    /\ ops.connect = "ok"
    /\ pc_stop = "done"
    /\ pc_run = "done"
    /\ Count(ui_log, "disconnected") = 1
    /\ Count(ui_log, "error") = 0

\* The session has settled in Disconnected.
Settled ==
    /\ pc_run = "done"
    /\ pc_stop = "done"
    /\ client = "None"
    /\ Count(ui_log, "disconnected") = 1

\* C6: once stop() has been called, in whatever state of the session, the
\* session eventually settles in Disconnected (run() and stop() have
\* returned, the link handle is cleared, the disconnected event is posted)
\* and stays there, given that every link operation returns or fails.
C6_StopSettles == stopped ~> []Settled

\* stop() was called while a control write was in flight, and the session
\* has settled.
C6_Witness ==
    /\ ops.stop_write
    /\ Settled

\* Position of the first event of a kind in the log (0: none).
FirstIndex(log, kind) ==
    IF Count(log, kind) = 0 THEN 0
    ELSE CHOOSE i \in 1..Len(log) :
            /\ log[i].kind = kind
            /\ \A j \in 1..(i - 1) : log[j].kind # kind

\* A step that is a send_control or request_battery call.
ApiCall ==
    \/ \E k \in DOMAIN tasks : tasks[k].pc = "new" /\ tasks'[k].pc # "new"
    \/ \E k \in DOMAIN breq : breq[k] = "new" /\ breq'[k] # "new"

\* The session is disconnected: run() has finished and cleared the handle.
Disconnected == pc_run = "done" /\ client = "None"

\* C7, as claimed: on a disconnected session send_control and
\* request_battery start no link operation, post no event and change no field.
C7_DisconnectedCallsNoop ==
    [][(Disconnected /\ ApiCall) => (SessionState' = SessionState /\ ui_log' = ui_log)]_vars

\* C7, amended: on a disconnected session send_control is a no-op, and so is
\* request_battery once stop() has been called; on a session disconnected by
\* a connection failure, with stop() not called, request_battery posts one
\* message event and does nothing else.  No call starts a link operation or
\* changes a field.
C7_DisconnectedCallsAmended ==
    [][(Disconnected /\ ApiCall) =>
         /\ SessionState' = SessionState
         /\ \A k \in DOMAIN tasks : tasks'[k].pc \in {tasks[k].pc, "noop"} /\ tasks'[k].w = tasks[k].w
         /\ \A k \in DOMAIN breq : breq'[k] \in {breq[k], "noop", "message"}
         /\ ui_log' = IF breq' # breq /\ ~stopped
                      THEN Append(ui_log, Event("message", <<>>))
                      ELSE ui_log]_vars

\* Both calls were made on a session disconnected by a connection failure.
C7_Witness ==
    /\ ops.late_send
    /\ ops.connect = "fail"
    /\ ~stopped
    /\ \E k \in DOMAIN tasks : tasks[k].pc = "noop"
    /\ \E k \in DOMAIN breq : breq[k] = "message"
    /\ \E i \in 1..Len(ui_log) :
          /\ ui_log[i].kind = "message"
          /\ FirstIndex(ui_log, "disconnected") \in 1..(i - 1)

\* C8: a link fault while the session is Connected and waiting for stop
\* leads to Disconnected and the disconnected event.
C8_LinkFaultDisconnects ==
    (link = "dropped" /\ pc_run = "waiting") ~> (pc_run = "done" /\ Count(ui_log, "disconnected") = 1)

\* C9: when the connect fails, run() posts one error event and then one
\* disconnected event, never a connected event, leaves the link handle
\* cleared and the link closed, and returns.
C9_ConnectFailure ==
    ops.connect = "fail" =>
        /\ pc_run = "done"
        /\ client = "None"
        /\ link = "down"
        /\ Count(ui_log, "connected") = 0
        /\ Count(ui_log, "error") = 1
        /\ Count(ui_log, "disconnected") = 1
        /\ FirstIndex(ui_log, "error") < FirstIndex(ui_log, "disconnected")
        /\ ~status_notify /\ ~battery_notify

\* The connect has failed.
C9_Witness ==
    /\ ops.connect = "fail"
    /\ pc_run = "done"
    /\ ui_log = << Event("message", <<>>), Event("error", <<>>), Event("disconnected", <<>>) >>

\* The number of subscriptions that failed.
SubFailures ==
    (IF ops.sub_status = "fail" THEN 1 ELSE 0) + (IF ops.sub_battery = "fail" THEN 1 ELSE 0)

\* C10: on entering Connected both subscriptions are attempted, whatever the
\* outcome of the other; each failure posts exactly one warn event (the other
\* warn events are those of failed battery reads) and leaves only its own
\* flag false, and the session goes on.
C10_IndependentSubscriptions ==
    /\ Count(ui_log, "warn") = SubFailures + ops.read_fail
    /\ pc_run \in {"read_battery", "waiting"} =>
          /\ ops.sub_status # "none" /\ ops.sub_battery # "none"
          /\ client = "client"
          /\ Count(ui_log, "disconnected") = 0
          /\ ~stopped =>
                /\ status_notify = (ops.sub_status = "ok")
                /\ battery_notify = (ops.sub_battery = "ok")
    /\ ops.sub_status = "fail" => pc_run # "enable_status"
    /\ (ops.sub_status # "none" /\ ops.sub_battery = "none") => pc_run = "enable_battery"

\* The status subscription failed, the battery subscription succeeded, and
\* the session is Connected with one warn event.
C10_Witness ==
    /\ pc_run = "waiting"
    /\ ops.sub_status = "fail" /\ ops.sub_battery = "ok"
    /\ ~status_notify /\ battery_notify
    /\ ops.read_fail = 0
    /\ Count(ui_log, "warn") = 1

----------------------------------------------------------------------------
(* The failure of a control write *)

\* The write of call k raises in this step.
WriteFails(k) == tasks[k].pc = "writing" /\ tasks'[k].pc = "err"

\* The write_gatt_char calls made with payload p, and the calls admitted with it.
WritesOf(p) == { i \in 1..Len(writes) : writes[i][1] = p }
AdmittedWith(p) == { k \in DOMAIN tasks : Admitted(k) /\ tasks[k].p = p }

\* C11: a control write that fails posts exactly one error event and no
\* payload event, leaves last_payload, the link handle and the capability
\* flags as they were, and starts no new write; a payload is never written
\* more often than send_control calls were admitted with it.
C11_WriteFailure ==
    /\ [][\A k \in DOMAIN tasks : WriteFails(k) =>
            /\ ui_log' = Append(ui_log, Event("error", <<>>))
            /\ last_payload' = last_payload
            /\ last_sent_payload' = last_sent_payload
            /\ <<client, status_notify, battery_notify, pc_run, stopped>>'
                 = <<client, status_notify, battery_notify, pc_run, stopped>>
            /\ writes' = writes]_vars
    /\ [](\A p \in Payloads : Cardinality(WritesOf(p)) <= Cardinality(AdmittedWith(p)))

\* A write has failed with its one error event, and a later call admitted
\* with the same payload has written it.
C11_Witness ==
    \E k, j \in DOMAIN tasks :
        /\ k < j
        /\ tasks[k].pc = "err"
        /\ tasks[j].pc = "ok"
        /\ tasks[j].p = tasks[k].p
        /\ Count(ui_log, "error") = 1

----------------------------------------------------------------------------
(* Notification dedup *)

\* The notifications delivered so far on a characteristic.
RxOf(ch) == SelectSeq(rx, LAMBDA n : n[1] = ch)

\* A notification with these bytes is delivered in this step.
Delivers(ch, data) == rx' = Append(rx, <<ch, data>>)

\* The telemetry of ControlState and the events posted.
Telemetry == <<battery_pct, last_status, last_status_hex, ui_log>>

\* C12: a status notification whose bytes equal those of the previous status
\* notification, and a battery notification whose first byte equals the
\* battery value observed before it (ControlState.battery_pct), is discarded:
\* no event is posted and ControlState does not change.
C12_NotificationDedup ==
    [][/\ \A data \in StatusData :
            ( /\ Delivers("status", data)
              /\ RxOf("status") # <<>>
              /\ RxOf("status")[Len(RxOf("status"))][2] = data )
            => Telemetry' = Telemetry
       /\ \A data \in BatteryData :
            ( /\ Delivers("battery", data)
              /\ data # <<>>
              /\ battery_pct = Some(data[1]) )
            => Telemetry' = Telemetry]_vars

----------------------------------------------------------------------------
(* The event bus *)

\* A capacity of the bus; the claim names none, and any takes its place.
BusBound == 3

\* C13: the bus is bounded (here: it never holds more than BusBound events,
\* an event posted to the full bus being dropped), the producer never blocks
\* or raises, and the consumer has received, in the order of posting, the
\* accepted events that are no longer queued.
C13_BoundedFifoBus ==
    /\ Len(ui_queue) <= BusBound
    /\ consumed <= Len(ui_log)
    /\ ui_log = SubSeq(ui_log, 1, consumed) \o ui_queue

----------------------------------------------------------------------------
(* The shutdown sentinel and the end of the application *)

\* The places of the items of a kind in the log of the bus.
Places(kind) == { i \in 1..Len(ui_log) : ui_log[i].kind = kind }

\* run() is in its teardown, past the main loop and the session's task.
TornDown == pc_app \in {"gather_ui", "done"} /\ ~running /\ pc_run = "done"

\* C14: the sentinel is posted at most once, and exactly once by the time
\* run() waits for the consumer; it is posted only in run()'s teardown, after
\* the session's disconnected event; and the consumer takes no item posted
\* after the sentinel.
C14_SentinelOnce ==
    /\ Cardinality(Places("shutdown")) <= 1
    /\ pc_app \in {"gather_ui", "done"} <=> Cardinality(Places("shutdown")) = 1
    /\ \A s \in Places("shutdown") :
        /\ TornDown
        /\ \E d \in Places("disconnected") : d < s
        /\ consumed <= s

\* The consumer has stopped at the sentinel, which came after the
\* disconnected event, and an event has been posted after the sentinel.
C14_Witness ==
    \E s \in Places("shutdown") :
        /\ pc_ui = "done"
        /\ consumed = s
        /\ s < Len(ui_log)

\* The main loop has exited (or raised): run() is in its finally clause.
MainLoopExited == pc_app \notin {"init", "mainloop"}

\* The application has ended: the session's task, the consumer and run().
Terminated == pc_run = "done" /\ pc_ui = "done" /\ pc_app = "done"

\* C15: once the main loop has exited, the session's task finishes, the
\* sentinel reaches the consumer, ui_consumer exits and run() returns, and
\* it stays so.
C15_AppTerminates == MainLoopExited ~> []Terminated

\* The application has ended after a task created by the main loop and then
\* the shutdown's send_control have both written to the link.
C15_Witness ==
    /\ Terminated
    /\ \E k, j \in Slots :
        /\ k < j
        /\ shut[k] = "none" /\ tasks[k].w
        /\ shut[j] = "done" /\ tasks[j].w
        /\ \E i \in 1..Len(writes) : writes[i][1] = tasks[j].p /\ i > 1

----------------------------------------------------------------------------
(* build_control_payload and decode_status_payload *)

\* 1 for the given value of an axis, else 0; 1 for a switch that is on.
FlagOf(axis, value) == IF axis = value THEN 1 ELSE 0
Bit(b) == IF b THEN 1 ELSE 0

\* C16: build_control_payload returns exactly the 8 bytes [mode, fwd, rev,
\* left, right, lights, turbo, donut]: fwd is 1 exactly for throttle 1 and rev
\* exactly for throttle -1, left exactly for steering -1 and right exactly
\* for steering 1, every flag is 0 or 1, and neither fwd and rev nor left and
\* right are both 1.
C16_PayloadLayout ==
    call_result # <<>> =>
        LET st == call_arg
            r  == call_result
        IN  /\ Len(r) = 8
            /\ r = << st.mode,
                      FlagOf(st.throttle, 1), FlagOf(st.throttle, -1),
                      FlagOf(st.steering, -1), FlagOf(st.steering, 1),
                      Bit(st.lights), Bit(st.turbo), Bit(st.donut) >>
            /\ \A i \in 2..8 : r[i] \in {0, 1}
            /\ ~(r[2] = 1 /\ r[3] = 1)
            /\ ~(r[4] = 1 /\ r[5] = 1)

\* The payload of reverse and right with every switch on has been built.
C16_Witness ==
    /\ call_result # <<>>
    /\ call_arg.throttle = -1 /\ call_arg.steering = 1
    /\ call_arg.lights /\ call_arg.turbo /\ call_arg.donut
    /\ call_result = <<call_arg.mode, 0, 1, 0, 1, 1, 1, 1>>

\* The value of a hexadecimal digit.
HexValue(c) == CHOOSE v \in 0..15 : HexDigits[v + 1] = c

\* C17: decode_status_payload returns a dict for bytes of any length, chosen
\* by the length alone: for one byte {length: 1, battery_pct: byte 0}; for 8
\* bytes the record whose fields mode, forward, reverse, left, right, lights,
\* turbo, donut are bytes 0 to 7; for any other length, 0 included, {length,
\* raw}, where raw has two hexadecimal digits per byte that give the byte back.
C17_DecodeByLength ==
    call_result # <<>> =>
        LET d == call_arg
            r == call_result
        IN  /\ r.length = Len(d)
            /\ Len(d) = 1 => r = [length |-> 1, battery_pct |-> d[1]]
            /\ Len(d) = 8 =>
                /\ DOMAIN r = {"length", "mode", "forward", "reverse", "left",
                               "right", "lights", "turbo", "donut"}
                /\ <<r.mode, r.forward, r.reverse, r.left, r.right,
                     r.lights, r.turbo, r.donut>> = d
            /\ Len(d) \notin {1, 8} =>
                /\ DOMAIN r = {"length", "raw"}
                /\ Len(r.raw) = 2 * Len(d)
                /\ \A i \in 1..Len(d) :
                    16 * HexValue(r.raw[2 * i - 1]) + HexValue(r.raw[2 * i]) = d[i]

\* An 8-byte record with different left and right, or the raw form of 9
\* bytes, has been returned.
C17_Witness ==
    /\ call_result # <<>>
    /\ \/ Len(call_arg) = 8 /\ call_result.left # call_result.right
       \/ Len(call_arg) = 9 /\ call_result.raw[1] = "a"

----------------------------------------------------------------------------
(* ControlState.last_payload *)

\* C18: last_payload is empty or the payload of a send_control call that the
\* rate limiter admitted, whoever stored it (send_control or the consumer).
C18_LastPayloadAdmitted ==
    \/ last_payload = EmptyBytes
    \/ \E k \in Slots : Admitted(k) /\ tasks[k].p = last_payload

\* A call has been rejected by the limiter, and the consumer has stored the
\* payload of a payload event in last_payload.
C18_Witness ==
    /\ \E k \in Slots : tasks[k].pc = "rejected"
    /\ last_payload # EmptyBytes
    /\ \E i \in 1..consumed : ui_log[i].kind = "payload" /\ ui_log[i].data = last_payload

\* The payload of the most recent write that succeeded, each of which posts
\* one payload event; empty before the first.
LastWritten ==
    IF Places("payload") = {} THEN EmptyBytes
    ELSE ui_log[Max(Places("payload"))].data

\* C19: last_payload is the payload of the most recent successful write, also
\* while the consumer handles queued payload events.
C19_LastPayloadIsLastWritten == last_payload = LastWritten

----------------------------------------------------------------------------
(* The exits of run() *)

\* C20: when run() has finished, by whichever path (stop, connect failure,
\* exception while connected, cancellation of its task, stop() racing with
\* the teardown), the link handle is cleared, both capability flags are
\* false and exactly one disconnected event has been posted; and every
\* subscription that was made has had its unsubscribe attempted, whatever
\* became of the other one's.
C20_RunExitReleases ==
    pc_run = "done" =>
        /\ client = "None"
        /\ ~status_notify
        /\ ~battery_notify
        /\ Count(ui_log, "disconnected") = 1
        /\ ops.sub_status = "ok" => ops.unsub_status >= 1
        /\ ops.sub_battery = "ok" => ops.unsub_battery >= 1

----------------------------------------------------------------------------
(* The order of the writes *)

\* The calls whose write_gatt_char has started, and those whose write returned.
WrittenSlots == { k \in DOMAIN tasks : tasks[k].w }
OkSlots == { k \in DOMAIN tasks : tasks[k].pc = "ok" }

\* The i-th call of a set of calls, in the order of their admission (where the
\* caller runs each call up to its first suspension, calls are numbered in
\* the order in which they run should_send).
Nth(S, i) == CHOOSE k \in S : Cardinality({ j \in S : j <= k }) = i

\* The payload events of the bus, in order.
PayloadEvents == SelectSeq(ui_log, LAMBDA e : e.kind = "payload")

\* C21: the control writes reach the link in the order in which their
\* send_control calls were admitted by the rate limiter, and the payload
\* events are on the bus in that same order, each with the payload written.
C21_WritesInAdmissionOrder ==
    /\ Len(writes) = Cardinality(WrittenSlots)
    /\ \A i \in 1..Len(writes) : writes[i][1] = tasks[Nth(WrittenSlots, i)].p
    /\ Len(PayloadEvents) = Cardinality(OkSlots)
    /\ \A i \in 1..Len(PayloadEvents) :
        PayloadEvents[i].data = tasks[Nth(OkSlots, i)].p

\* Two admitted calls with different payloads have queued for the lock behind
\* the write of a first one.
C21_Witness ==
    /\ tasks[1].pc = "writing"
    /\ waiters = <<2, 3>>
    /\ tasks[2].p # tasks[3].p

----------------------------------------------------------------------------
(* The range of ControlState.battery_pct *)

\* C22: battery_pct is None or an integer from 0 to 100, whatever the
\* battery notifications and battery reads deliver.
C22_BatteryInRange ==
    \/ battery_pct = None
    \/ battery_pct[1] \in 0..100

----------------------------------------------------------------------------
(* The range of throttle and steering *)

\* C23: after any sequence of key-down, key-up, gamepad and shutdown events
\* ControlState.throttle and ControlState.steering are each -1, 0 or 1.
C23_ThrottleSteeringRange ==
    /\ state.throttle \in {-1, 0, 1}
    /\ state.steering \in {-1, 0, 1}

\* With only w down the throttle is reverse (the gamepad set it after the
\* key), and with a and d both down the steering is that of the later key.
C23_Witness ==
    /\ throttle_keys_down = {"w"}
    /\ state.throttle = -1
    /\ steering_keys_down = {"a", "d"}
    /\ state.steering = 1
    /\ last_steering_key = "d"

----------------------------------------------------------------------------
(* The neutral payload of shutdown *)

\* A payload with none of the flags forward, reverse, left and right.
Neutral(p) == \A i \in 2..5 : p[i] = 0

\* The write of the neutral payload by shutdown()'s send_control has returned.
ShutdownWritten == \E k \in Slots : shut[k] # "none" /\ tasks[k].pc = "ok"

\* C24: once shutdown() has written its neutral payload, every control write
\* that starts is neutral, so that the last payload written is neutral, also
\* with send_control tasks of the input loop pending when shutdown starts.
C24_NeutralLast ==
    ShutdownWritten => Neutral(writes[Len(writes)][1])

----------------------------------------------------------------------------
(* After the disconnected event *)

\* run() has posted its disconnected event.
DisconnectedPosted == Count(ui_log, "disconnected") >= 1

\* C25: after the disconnected event the session posts no further event and
\* starts no further write or read on the link, whatever send_control and
\* request_battery calls were in progress or queued for the write lock when
\* the teardown began (the steps looked at are those of such calls and of the
\* session, not the calls made after the event).
C25_DisconnectedQuiescent ==
    [][(DisconnectedPosted /\ ~ApiCall) =>
        /\ ui_log' = ui_log
        /\ writes' = writes
        /\ \A k \in DOMAIN breq : breq'[k] = "reading" => breq[k] = "reading"]_vars

----------------------------------------------------------------------------
(* One unsubscribe per subscription *)

\* C26: stop_notify is called at most once for each characteristic, however
\* the _disable_notifications of stop() and that of run()'s finally clause
\* interleave.
C26_UnsubscribeOnce ==
    /\ ops.unsub_status <= 1
    /\ ops.unsub_battery <= 1
============================================================================
